---- MODULE Spec2Model ----
(***************************************************************************)
(* A model of the feature-probe crate (src/src/lib.rs): Probe values and   *)
(* their builder methods, the command built by Probe::probe_result, the    *)
(* retry loop retry_n_times, and the attempt closure that runs under the   *)
(* process-wide RUSTC_MUTEX, with the compiler children as processes of    *)
(* the operating system.                                                   *)
(***************************************************************************)
EXTENDS Integers, Sequences, FiniteSets, TLC

\* ------------------------------------------------------------------ bounds
NThreads == 2
NProbes == 2
MaxRetries == 2
MaxArgs == 2
MaxCalls == 1
MaxCfgCalls == 1
MaxFaults == 3
MaxBuilderCalls == 2
MaxBuilderFaults == 1
MaxRepeatCalls == 2
MaxRepeatFaults == 1
MaxFairFaults == 2

\* ------------------------------------------------------- program constants
DefaultRetries == 2
NULL_DEVICE == "/dev/null"
DefaultEmit == "obj"
DefaultRustc == "rustc"

\* --------------------------------------------------------------- input sets
Threads == 1..NThreads
Probes == 1..NProbes
EmitKinds == {"obj", "metadata"}
Compilers == {"rustc", "/opt/rustc"}
ArgStrings == {"-O", "-g"}
ArgLists == {<<>>, <<"-g">>, <<"-g", "-O">>, <<"-g", "-g">>}
Programs == {"fn main() { }"}
Types == {"u32"}
Exprs == {"Vec::new()"}
RepeatPrograms == {"fn main() { }", "fn main(args: Vec<String>) { }"}
EntryPoints == {"probe_result", "probe", "probe_type", "probe_expression",
                "probe_typed_expression"}

\* --------------------------------------------------------------- io::Result
NoResult == [tag |-> "None"]
Ok(b) == [tag |-> "Ok", val |-> b]
Err(kind, at) == [tag |-> "Err", kind |-> kind, at |-> at]
is_err(r) == r.tag = "Err"
is_ok(r) == r.tag = "Ok"

VARIABLES
    probes,       \* the Probe values: debug, emit_type, retries, rustc, rustc_args
    asked,        \* per Probe, what the builder calls asked for: per field the value of
                  \* the last call, for rustc_args every argument in call order
    calledOn,     \* the Probe the last builder call was made on (0: none yet)
    chained,      \* the Probe the last builder call returned (0: none yet)
    cfgCalls,     \* number of builder calls made
    RUSTC_MUTEX,  \* 0 when free, else the thread holding the guard
    procs,        \* spawned children not yet waited for: <<pid, state>>
    pc,           \* per thread: position in probe / probe_result / retry_n_times
    self,         \* per thread: the Probe the call borrows
    api,          \* per thread: the entry point called
    frag,         \* per thread: the fragment(s) the entry point was given
    code,         \* per thread: the program text
    cmd,          \* per thread: the Command built for this call
    n,            \* per thread: retry_n_times' counter
    attempts,     \* per thread: calls of the closure made by this call
    faults,       \* per thread: how many of them returned Err
    result,       \* per thread: retry_n_times' result
    child,        \* per thread: pid of the closure's Child (NoPid: none)
    stdin,        \* per thread: the Child's stdin pipe: none/open/closed
    written,      \* per thread: what was written to that pipe
    echo,         \* per thread: what this call printed with eprintln!
    outcome,      \* per thread: what the finished call gave its caller
    calls,        \* per thread: calls started
    injected,     \* number of spawn, write and wait faults so far
    budget,       \* how many builder calls, faults and calls per thread this run may see
    toolchain,    \* the installed compiler when it is a fixed one: <<program, arguments>> to exit status
    started,      \* per thread: the Probe value as it was when the call began
    reaped,       \* per thread: the exit status the latest attempt's wait returned
    poisoned,     \* RUSTC_MUTEX's poison flag: a guard was dropped by a panicking thread
    entry,        \* per thread: the entry point the caller called
    spawned,      \* every process id a successful spawn has handed out
    verdicts      \* <<program, arguments, boolean>> of every call that returned a boolean

cfgVars == <<probes, asked, calledOn, chained, cfgCalls>>
osVars == <<procs, poisoned, spawned>>
callVars == <<self, api, frag, code, cmd, echo, calls, started, entry>>
loopVars == <<n, attempts, faults, result, reaped>>
childVars == <<child, stdin, written>>
vars == <<probes, asked, calledOn, chained, cfgCalls, RUSTC_MUTEX, procs, pc, self, api,
          frag, code, cmd, n, attempts, faults, result, child, stdin, written, echo, outcome,
          calls, injected, budget, toolchain, started, reaped, poisoned, entry, spawned, verdicts>>

\* ------------------------------------------------------------ Probe::new
ProbeNew ==
    [debug |-> FALSE, emit_type |-> DefaultEmit, retries |-> DefaultRetries,
     rustc |-> DefaultRustc, rustc_args |-> <<>>]

NoPid == <<>>

NoCmd == [program |-> "", args |-> <<>>, env |-> {}, stdin |-> "", stdout |-> "",
          stderr |-> ""]

InitWith(b) ==
    /\ budget = b
    /\ toolchain \in b.toolchains
    /\ probes = [p \in Probes |-> ProbeNew]
    /\ asked = [p \in Probes |-> ProbeNew]
    /\ calledOn = 0
    /\ chained = 0
    /\ cfgCalls = 0
    /\ RUSTC_MUTEX = 0
    /\ procs = {}
    /\ pc = [t \in Threads |-> "idle"]
    /\ self = [t \in Threads |-> 0]
    /\ api = [t \in Threads |-> ""]
    /\ frag = [t \in Threads |-> <<>>]
    /\ code = [t \in Threads |-> ""]
    /\ cmd = [t \in Threads |-> NoCmd]
    /\ n = [t \in Threads |-> 0]
    /\ attempts = [t \in Threads |-> 0]
    /\ faults = [t \in Threads |-> 0]
    /\ result = [t \in Threads |-> NoResult]
    /\ child = [t \in Threads |-> NoPid]
    /\ stdin = [t \in Threads |-> "none"]
    /\ written = [t \in Threads |-> ""]
    /\ echo = [t \in Threads |-> ""]
    /\ outcome = [t \in Threads |-> NoResult]
    /\ calls = [t \in Threads |-> 0]
    /\ injected = 0
    /\ started = [t \in Threads |-> ProbeNew]
    /\ reaped = [t \in Threads |-> "none"]
    /\ poisoned = FALSE
    /\ entry = [t \in Threads |-> ""]
    /\ spawned = {}
    /\ verdicts = {}

\* No fixed compiler: a child's exit status is any.
AnyToolchain == {<<>>}

Init ==
    InitWith([cfg |-> MaxCfgCalls, faults |-> MaxFaults, calls |-> MaxCalls,
              toolchains |-> AnyToolchain])

InitBuilder ==
    InitWith([cfg |-> MaxBuilderCalls, faults |-> MaxBuilderFaults, calls |-> MaxCalls,
              toolchains |-> AnyToolchain])

\* ---------------------------------------------------------- builder methods
\* Builders that took &self (fields behind interior mutability) would not be excluded.
BorrowedNever(p) == FALSE

\* A builder takes &mut self: it cannot run while a probing call borrows the Probe.
Borrowed(p) == \E t \in Threads : pc[t] \notin {"idle", "done"} /\ self[t] = p

MayConfigure(p) == ~Borrowed(p) /\ cfgCalls < budget.cfg

Configured(p, field, value) ==
    /\ probes' = [probes EXCEPT ![p] = [@ EXCEPT ![field] = value]]
    /\ chained' = p
    /\ cfgCalls' = cfgCalls + 1

\* The record of the call itself: which Probe, which field, which value.
Asked(p, field, value) ==
    /\ asked' = [asked EXCEPT ![p] = [@ EXCEPT ![field] = value]]
    /\ calledOn' = p

ThreadsUnchanged ==
    UNCHANGED <<RUSTC_MUTEX, procs, pc, self, api, frag, code, cmd, n, attempts, faults,
                result, child, stdin, written, echo, outcome, calls, injected, budget, toolchain,
                started, reaped, poisoned, entry, spawned, verdicts>>

\* An insert at the front instead of a push.
PushFront(v, s) == <<s>> \o v

\* Vec::push and Vec::extend
Push(v, s) == Append(v, s)

Extend(v, ss) == v \o ss

arg(p, s) ==
    /\ MayConfigure(p)
    /\ Len(probes[p].rustc_args) < MaxArgs
    /\ Configured(p, "rustc_args", Push(probes[p].rustc_args, s))
    /\ Asked(p, "rustc_args", asked[p].rustc_args \o <<s>>)
    /\ ThreadsUnchanged

args(p, ss) ==
    /\ MayConfigure(p)
    /\ Len(probes[p].rustc_args) + Len(ss) <= MaxArgs
    /\ Configured(p, "rustc_args", Extend(probes[p].rustc_args, ss))
    /\ Asked(p, "rustc_args", asked[p].rustc_args \o ss)
    /\ ThreadsUnchanged

debug(p, b) ==
    /\ MayConfigure(p)
    /\ Configured(p, "debug", b)
    /\ Asked(p, "debug", b)
    /\ ThreadsUnchanged

emit(p, e) ==
    /\ MayConfigure(p)
    /\ Configured(p, "emit_type", e)
    /\ Asked(p, "emit_type", e)
    /\ ThreadsUnchanged

retries(p, r) ==
    /\ MayConfigure(p)
    /\ Configured(p, "retries", r)
    /\ Asked(p, "retries", r)
    /\ ThreadsUnchanged

rustc(p, path) ==
    /\ MayConfigure(p)
    /\ Configured(p, "rustc", path)
    /\ Asked(p, "rustc", path)
    /\ ThreadsUnchanged

\* ------------------------------------------------- the Command of one call
build_emit(pr) == pr.emit_type \o "=" \o NULL_DEVICE

\* The extra arguments placed before the built-in flags.
BuildArgsExtraFirst(pr) ==
    (IF pr.debug THEN <<"--verbose">> ELSE <<>>)
        \o pr.rustc_args \o <<"--emit", build_emit(pr), "-">>

BuildArgs(pr) ==
    (IF pr.debug THEN <<"--verbose">> ELSE <<>>)
        \o <<"--emit", build_emit(pr), "-">> \o pr.rustc_args

BuildEnv(pr) == IF pr.debug THEN {<<"RUST_BACKTRACE", "full">>} ELSE {}

BuildCommand(pr) ==
    [program |-> pr.rustc, args |-> BuildArgs(pr), env |-> BuildEnv(pr),
     stdin |-> "piped", stdout |-> "null", stderr |-> "null"]

\* No echo in either mode.
EprintlnQuiet(pr, text) == ""

\* eprintln!("probing: {}", code) inside if self.debug
Eprintln(pr, text) == IF pr.debug THEN "probing: " \o text ELSE ""

\* ------------------------------------------------------- snippet synthesis
\* probe_type without the Box around the type.
SynthesizeUnboxed(a, f) ==
    CASE a = "probe_type" ->
            "fn probe_fun(_: " \o f[1] \o ") {} fn main() {} "
      [] a = "probe_expression" ->
            "fn main() { let _ = " \o f[1] \o "; }"
      [] a = "probe_typed_expression" ->
            "fn main() { let _: " \o f[2] \o " = " \o f[1] \o "; }"
      [] OTHER -> f[1]

\* format!(..) of probe_type, probe_expression and probe_typed_expression
Synthesize(a, f) ==
    CASE a = "probe_type" ->
            "fn probe_fun(_: Box<" \o f[1] \o ">) {} fn main() {} "
      [] a = "probe_expression" ->
            "fn main() { let _ = " \o f[1] \o "; }"
      [] a = "probe_typed_expression" ->
            "fn main() { let _: " \o f[2] \o " = " \o f[1] \o "; }"
      [] OTHER -> f[1]

\* Every entry point returning the io::Result.
CalleeResult(a) == "probe_result"

\* The three wrapping entry points end in self.probe(..).
Callee(a) == IF a = "probe_result" THEN "probe_result" ELSE "probe"

Fragments(a) ==
    CASE a = "probe_type" -> {<<ty>> : ty \in Types}
      [] a = "probe_expression" -> {<<e>> : e \in Exprs}
      [] a = "probe_typed_expression" -> {<<e, ty>> : e \in Exprs, ty \in Types}
      [] OTHER -> {<<src>> : src \in Programs}

\* ------------------------------------------------------------ retry_n_times
\* One retry too few.
RetryAgainOffByOne(r, k) == is_err(r) /\ k > 1

\* A rejected compile retried like a fault.
RetryAgainOnRejection(r, k) == (is_err(r) \/ (is_ok(r) /\ ~r.val)) /\ k > 0

RetryAgain(r, k) == is_err(r) /\ k > 0

\* The first error kept instead of the latest.
AssignKeepFirstErr(old, new) == IF is_err(old) THEN old ELSE new

\* result = f();
Assign(old, new) == new

\* ------------------------------------------------------ the attempt closure
\* Any exit taken for success.
ExitSuccessAny(st) == st \in {"exit0", "exit1"}

\* ExitStatus::success
ExitSuccess(st) == st = "exit0"

\* An answer of true remembered for every later wait.
WaitResultCached(st) == Ok(ExitSuccess(st) \/ \E v \in verdicts : v[3])

WaitResult(st) == Ok(ExitSuccess(st))

Live == {pr[1] : pr \in procs}

StatusOf(pid) == (CHOOSE pr \in procs : pr[1] = pid)[2]

\* ------------------------------------------------------------ Probe::probe
\* unwrap_or(false) in place of expect.
ExpectOrFalse(r) == [tag |-> "Bool", val |-> IF is_ok(r) THEN r.val ELSE FALSE]

Expect(r) == IF is_ok(r) THEN [tag |-> "Bool", val |-> r.val] ELSE [tag |-> "Panic"]

Boundary(a, r) == IF a = "probe_result" THEN r ELSE Expect(r)

\* ------------------------------------------------------------------ actions
\* A probing entry point is called on Probe p (&self).
Enter(t, p, a, f) ==
    /\ pc[t] \in {"idle", "done"}
    /\ calls[t] < budget.calls
    /\ pc' = [pc EXCEPT ![t] = "format"]
    /\ self' = [self EXCEPT ![t] = p]
    /\ api' = [api EXCEPT ![t] = a]
    /\ frag' = [frag EXCEPT ![t] = f]
    /\ code' = [code EXCEPT ![t] = ""]
    /\ cmd' = [cmd EXCEPT ![t] = NoCmd]
    /\ echo' = [echo EXCEPT ![t] = ""]
    /\ calls' = [calls EXCEPT ![t] = @ + 1]
    /\ n' = [n EXCEPT ![t] = 0]
    /\ attempts' = [attempts EXCEPT ![t] = 0]
    /\ faults' = [faults EXCEPT ![t] = 0]
    /\ result' = [result EXCEPT ![t] = NoResult]
    /\ outcome' = [outcome EXCEPT ![t] = NoResult]
    /\ started' = [started EXCEPT ![t] = probes[p]]
    /\ reaped' = [reaped EXCEPT ![t] = "none"]
    /\ entry' = [entry EXCEPT ![t] = a]
    /\ UNCHANGED <<cfgVars, osVars, childVars, RUSTC_MUTEX, injected, budget, toolchain, verdicts>>

\* probe_type / probe_expression / probe_typed_expression: format!, then probe.
Format(t) ==
    /\ pc[t] = "format"
    /\ code' = [code EXCEPT ![t] = Synthesize(api[t], frag[t])]
    /\ api' = [api EXCEPT ![t] = Callee(@)]
    /\ pc' = [pc EXCEPT ![t] = "build"]
    /\ UNCHANGED <<cfgVars, osVars, childVars, loopVars, RUSTC_MUTEX, self, frag, cmd, echo,
                   calls, outcome, injected, budget, toolchain, started, entry, verdicts>>

\* probe_result up to the call of retry_n_times, whose first statement calls f.
Build(t) ==
    /\ pc[t] = "build"
    /\ echo' = [echo EXCEPT ![t] = Eprintln(probes[self[t]], code[t])]
    /\ cmd' = [cmd EXCEPT ![t] = BuildCommand(probes[self[t]])]
    /\ n' = [n EXCEPT ![t] = probes[self[t]].retries]
    /\ attempts' = [attempts EXCEPT ![t] = 1]
    /\ pc' = [pc EXCEPT ![t] = "lock"]
    /\ UNCHANGED <<cfgVars, osVars, childVars, RUSTC_MUTEX, self, api, frag, code, calls,
                   faults, result, outcome, injected, budget, toolchain, started, reaped, entry,
                   verdicts>>

\* let _guard = RUSTC_MUTEX.lock().unwrap();  lock blocks until the mutex is free and
\* returns Err when it is poisoned, which unwrap turns into a panic of the caller.
Lock(t) ==
    /\ pc[t] = "lock"
    /\ RUSTC_MUTEX = 0
    /\ IF poisoned
         THEN /\ outcome' = [outcome EXCEPT ![t] = [tag |-> "Panic"]]
              /\ pc' = [pc EXCEPT ![t] = "done"]
              /\ UNCHANGED RUSTC_MUTEX
         ELSE /\ RUSTC_MUTEX' = t
              /\ pc' = [pc EXCEPT ![t] = "spawn"]
              /\ UNCHANGED outcome
    /\ UNCHANGED <<cfgVars, osVars, childVars, callVars, loopVars, injected, budget, toolchain, verdicts>>

\* Dropping a Child whose process was not waited for leaves the process behind: it is
\* neither killed nor reaped, and with the handle gone nothing can wait for it any more.
Detach(ps, pid) == {IF pr[1] = pid THEN <<pid, "detached">> ELSE pr : pr \in ps}

\* The closure returns r: its locals are dropped in reverse order of declaration (child,
\* then _guard) and retry_n_times assigns r to result; a call made by the loop body is
\* followed by n -= 1.
\* A guard kept when the attempt faulted.
GuardKeptOnErr(t, r) == IF is_err(r) THEN t ELSE 0

\* A guard that is never dropped.
GuardLeaked(t, r) == t

\* _guard goes out of scope whatever the closure returns: the mutex is free again.
GuardDropped(t, r) == 0

Returns(t, r, st) ==
    /\ result' = [result EXCEPT ![t] = Assign(@, r)]
    /\ reaped' = [reaped EXCEPT ![t] = st]
    /\ faults' = [faults EXCEPT ![t] = IF is_err(r) THEN @ + 1 ELSE @]
    /\ injected' = IF is_err(r) THEN injected + 1 ELSE injected
    /\ child' = [child EXCEPT ![t] = NoPid]
    /\ stdin' = [stdin EXCEPT ![t] = "none"]
    /\ written' = [written EXCEPT ![t] = ""]
    /\ RUSTC_MUTEX' = GuardDropped(t, r)
    /\ n' = [n EXCEPT ![t] = IF attempts[t] > 1 THEN @ - 1 ELSE @]
    /\ pc' = [pc EXCEPT ![t] = "loop"]
    /\ UNCHANGED <<cfgVars, callVars, attempts, outcome, budget, toolchain, poisoned, spawned, verdicts>>

\* The process of the call's first attempt used again.
NewPidReused(t) == <<t, calls[t], 1>>

\* let mut child = cmd.spawn()?;  Each successful spawn starts a new process.
NewPid(t) == <<t, calls[t], attempts[t]>>

SpawnOk(t) ==
    /\ pc[t] = "spawn"
    /\ procs' = procs \cup {<<NewPid(t), "running">>}
    /\ spawned' = spawned \cup {NewPid(t)}
    /\ child' = [child EXCEPT ![t] = NewPid(t)]
    /\ stdin' = [stdin EXCEPT ![t] = "open"]
    /\ written' = [written EXCEPT ![t] = ""]
    /\ pc' = [pc EXCEPT ![t] = "write"]
    /\ UNCHANGED <<cfgVars, callVars, loopVars, RUSTC_MUTEX, outcome, injected, budget, toolchain,
                   poisoned, verdicts>>

SpawnFault(t) ==
    /\ injected < budget.faults
    /\ pc[t] = "spawn"
    /\ Returns(t, Err("spawn", attempts[t]), "none")
    /\ UNCHANGED procs

\* child.stdin.as_mut().unwrap().write_all(code.as_bytes())?;
WriteOk(t) ==
    /\ pc[t] = "write"
    /\ written' = [written EXCEPT ![t] = code[t]]
    /\ pc' = [pc EXCEPT ![t] = "wait"]
    /\ UNCHANGED <<cfgVars, osVars, callVars, loopVars, RUSTC_MUTEX, child, stdin, outcome,
                   injected, budget, toolchain, verdicts>>

WriteFault(t) ==
    /\ injected < budget.faults
    /\ pc[t] = "write"
    /\ Returns(t, Err("write", attempts[t]), "none")
    /\ procs' = Detach(procs, child[t])

\* wait returns only once the child has exited: there is no timeout.
Exited(st) == st # "running"

\* Child::wait first closes the stdin pipe ...
CloseStdin(t) ==
    /\ pc[t] = "wait"
    /\ stdin' = [stdin EXCEPT ![t] = "closed"]
    /\ pc' = [pc EXCEPT ![t] = "waiting"]
    /\ UNCHANGED <<cfgVars, osVars, callVars, loopVars, RUSTC_MUTEX, child, written, outcome,
                   injected, budget, toolchain, verdicts>>

\* ... then blocks until the child has exited, and reaps it.
WaitOk(t) ==
    /\ pc[t] = "waiting"
    /\ Exited(StatusOf(child[t]))
    /\ Returns(t, WaitResult(StatusOf(child[t])), StatusOf(child[t]))
    /\ procs' = {pr \in procs : pr[1] # child[t]}

WaitFault(t) ==
    /\ injected < budget.faults
    /\ pc[t] = "waiting"
    /\ Returns(t, Err("wait", attempts[t]), "none")
    /\ procs' = Detach(procs, child[t])

\* while result.is_err() && n > 0 { result = f(); ... }
Retry(t) ==
    /\ pc[t] = "loop"
    /\ RetryAgain(result[t], n[t])
    /\ attempts' = [attempts EXCEPT ![t] = @ + 1]
    /\ pc' = [pc EXCEPT ![t] = "lock"]
    /\ UNCHANGED <<cfgVars, osVars, childVars, callVars, RUSTC_MUTEX, n, faults, result,
                   outcome, injected, budget, toolchain, reaped, verdicts>>

\* What a returned boolean adds to the record of answers.
Verdict(text, arguments, o) ==
    IF o.tag \in {"Ok", "Bool"} THEN {<<text, arguments, o.val>>} ELSE {}

\* expect panics on Err: the thread unwinds, and a MutexGuard dropped while its thread
\* panics poisons its mutex.
Unwinds(a, r) == Boundary(a, r) = [tag |-> "Panic"]

\* retry_n_times returns result; probe_result returns it; probe applies expect.
Return(t) ==
    /\ pc[t] = "loop"
    /\ ~RetryAgain(result[t], n[t])
    /\ outcome' = [outcome EXCEPT ![t] = Boundary(api[t], result[t])]
    /\ pc' = [pc EXCEPT ![t] = "done"]
    /\ code' = [code EXCEPT ![t] = ""]
    /\ cmd' = [cmd EXCEPT ![t] = NoCmd]
    /\ echo' = [echo EXCEPT ![t] = ""]
    /\ n' = [n EXCEPT ![t] = 0]
    /\ self' = [self EXCEPT ![t] = 0]
    /\ verdicts' = verdicts \cup Verdict(code[t], cmd[t].args, Boundary(api[t], result[t]))
    /\ poisoned' = (poisoned \/ (Unwinds(api[t], result[t]) /\ RUSTC_MUTEX = t))
    /\ RUSTC_MUTEX' = IF Unwinds(api[t], result[t]) /\ RUSTC_MUTEX = t THEN 0 ELSE RUSTC_MUTEX
    /\ UNCHANGED <<cfgVars, procs, spawned, childVars, api, frag, calls, attempts,
                   faults, result, injected, budget, toolchain, started, reaped, entry>>

\* A compiler process exits, with a success status or another one.
ChildExit(pid, st) ==
    /\ <<pid, "running">> \in procs
    /\ procs' = (procs \ {<<pid, "running">>}) \cup {<<pid, st>>}
    /\ UNCHANGED <<cfgVars, callVars, loopVars, childVars, RUSTC_MUTEX, pc, outcome, injected,
                   budget, toolchain, poisoned, spawned, verdicts>>

\* Threads probing raw programs through probe and probe_result, on Probes that differ in
\* their retry count.
Next ==
    \/ \E p \in Probes, r \in 0..MaxRetries : retries(p, r)
    \/ \E t \in Threads, p \in Probes, a \in {"probe", "probe_result"} :
          \E f \in Fragments(a) : Enter(t, p, a, f)
    \/ \E t \in Threads : Format(t)
    \/ \E t \in Threads : Build(t)
    \/ \E t \in Threads : Lock(t)
    \/ \E t \in Threads : SpawnOk(t)
    \/ \E t \in Threads : SpawnFault(t)
    \/ \E t \in Threads : WriteOk(t)
    \/ \E t \in Threads : WriteFault(t)
    \/ \E t \in Threads : CloseStdin(t)
    \/ \E t \in Threads : WaitOk(t)
    \/ \E t \in Threads : WaitFault(t)
    \/ \E t \in Threads : Retry(t)
    \/ \E t \in Threads : Return(t)
    \/ \E pid \in Live, st \in {"exit0", "exit1"} : ChildExit(pid, st)

Spec == Init /\ [][Next]_vars

\* One thread, every builder method and every entry point, and fewer faults.
Foreground == {t \in Threads : t = 1}

NextBuilder ==
    \/ \E p \in Probes, s \in ArgStrings : arg(p, s)
    \/ \E p \in Probes, ss \in ArgLists : args(p, ss)
    \/ \E p \in Probes, b \in BOOLEAN : debug(p, b)
    \/ \E p \in Probes, e \in EmitKinds : emit(p, e)
    \/ \E p \in Probes, r \in 0..MaxRetries : retries(p, r)
    \/ \E p \in Probes, path \in Compilers : rustc(p, path)
    \/ \E t \in Foreground, p \in Probes, a \in EntryPoints :
          \E f \in Fragments(a) : Enter(t, p, a, f)
    \/ \E t \in Foreground : Format(t)
    \/ \E t \in Foreground : Build(t)
    \/ \E t \in Foreground : Lock(t)
    \/ \E t \in Foreground : SpawnOk(t)
    \/ \E t \in Foreground : SpawnFault(t)
    \/ \E t \in Foreground : WriteOk(t)
    \/ \E t \in Foreground : WriteFault(t)
    \/ \E t \in Foreground : CloseStdin(t)
    \/ \E t \in Foreground : WaitOk(t)
    \/ \E t \in Foreground : WaitFault(t)
    \/ \E t \in Foreground : Retry(t)
    \/ \E t \in Foreground : Return(t)
    \/ \E pid \in Live, st \in {"exit0", "exit1"} : ChildExit(pid, st)

SpecBuilder == InitBuilder /\ [][NextBuilder]_vars

\* A compiler whose exit status is a fixed function of the program and the arguments.
FixedToolchains == [RepeatPrograms \X {BuildArgs(ProbeNew)} -> {"exit0", "exit1"}]

InitRepeat ==
    InitWith([cfg |-> 0, faults |-> MaxRepeatFaults, calls |-> MaxRepeatCalls,
              toolchains |-> FixedToolchains])

\* Threads that probe again and again, with a compiler that is a fixed function: rustc
\* reads its program from stdin up to the end of file and exits with the status the
\* program and the arguments determine.
NextRepeat ==
    \/ \E t \in Threads, p \in Probes, a \in {"probe", "probe_result"} :
          \E src \in RepeatPrograms : Enter(t, p, a, <<src>>)
    \/ \E t \in Threads : Format(t)
    \/ \E t \in Threads : Build(t)
    \/ \E t \in Threads : Lock(t)
    \/ \E t \in Threads : SpawnOk(t)
    \/ \E t \in Threads : SpawnFault(t)
    \/ \E t \in Threads : WriteOk(t)
    \/ \E t \in Threads : WriteFault(t)
    \/ \E t \in Threads : CloseStdin(t)
    \/ \E t \in Threads : WaitOk(t)
    \/ \E t \in Threads : WaitFault(t)
    \/ \E t \in Threads : Retry(t)
    \/ \E t \in Threads : Return(t)
    \/ \E t \in Threads :
          /\ stdin[t] = "closed"
          /\ ChildExit(child[t], toolchain[<<written[t], cmd[t].args>>])

SpecRepeat == InitRepeat /\ [][NextRepeat]_vars

\* Threads probing under a fair scheduler, every child exiting in the end.
InitFair ==
    InitWith([cfg |-> 0, faults |-> MaxFairFaults, calls |-> MaxCalls,
              toolchains |-> AnyToolchain])

\* The steps of thread t inside a call.
Step(t) ==
    \/ Format(t)
    \/ Build(t)
    \/ Lock(t)
    \/ SpawnOk(t)
    \/ SpawnFault(t)
    \/ WriteOk(t)
    \/ WriteFault(t)
    \/ CloseStdin(t)
    \/ WaitOk(t)
    \/ WaitFault(t)
    \/ Retry(t)
    \/ Return(t)

\* The child that thread t holds exits.
ChildExits(t) == \E st \in {"exit0", "exit1"} : ChildExit(child[t], st)

NextFair ==
    \/ \E t \in Threads, p \in Probes, a \in {"probe", "probe_result"} :
          \E f \in Fragments(a) : Enter(t, p, a, f)
    \/ \E t \in Threads : Step(t)
    \/ \E t \in Threads : ChildExits(t)

\* A thread that can take a step takes one in the end (the scheduler), and a running
\* child exits in the end.
Fairness == \A t \in Threads : WF_vars(Step(t)) /\ WF_vars(ChildExits(t))

SpecFair == InitFair /\ [][NextFair]_vars /\ Fairness

\* ===================================================================== claims
InCall(t) == pc[t] \notin {"idle", "done"}

Critical == {"spawn", "write", "wait", "waiting"}

\* C1: at no instant is there more than one live compiler child, a child being live from
\* its successful spawn until it has been waited for.
C1_AtMostOneLiveChild == Cardinality(Live) <= 1

\* C2: probe_result returns Ok(true) exactly when the child exited with success, Ok(false)
\* exactly when it exited with another status, and Err only when every attempt faulted.
C2_ResultInterpretation ==
    \A t \in Threads : pc[t] = "done" =>
        /\ (result[t] = Ok(TRUE)) <=> (reaped[t] = "exit0")
        /\ (result[t] = Ok(FALSE)) <=> (reaped[t] = "exit1")
        /\ is_err(result[t]) => faults[t] = attempts[t]
        /\ api[t] = "probe_result" => outcome[t] = result[t]

C2_Witness ==
    \E t \in Threads :
        pc[t] = "done" /\ api[t] = "probe_result" /\ outcome[t] = Ok(FALSE) /\ faults[t] >= 1

\* C3: a call with retry count r makes at most 1 + r attempts; when all its attempts
\* faulted it made exactly 1 + r and returns an error; otherwise it returns the boolean of
\* its last attempt.
C3_AttemptBudget ==
    \A t \in Threads : attempts[t] >= 1 =>
        /\ attempts[t] <= 1 + started[t].retries
        /\ pc[t] = "done" /\ faults[t] = attempts[t] =>
              attempts[t] = 1 + started[t].retries /\ is_err(result[t])
        /\ pc[t] = "done" /\ faults[t] < attempts[t] =>
              is_ok(result[t]) /\ result[t].val = (reaped[t] = "exit0")

C3_Witness ==
    \E t \in Threads :
        /\ pc[t] = "done" /\ started[t].retries = DefaultRetries
        /\ faults[t] = DefaultRetries /\ attempts[t] = 1 + DefaultRetries
        /\ is_ok(result[t])

\* C4: every attempt but the latest one of a call faulted, so an attempt whose child was
\* spawned and exited ends the call; its exit code, success or not, comes back as a boolean
\* and never as an error or a panic.
C4_RetryPolicy ==
    \A t \in Threads : attempts[t] >= 1 =>
        /\ faults[t] >= attempts[t] - 1
        /\ pc[t] = "done" /\ reaped[t] # "none" =>
              /\ faults[t] = attempts[t] - 1
              /\ outcome[t].tag \in {"Ok", "Bool"}
              /\ outcome[t].val = (reaped[t] = "exit0")

C4_Witness ==
    \E t \in Threads :
        /\ pc[t] = "done" /\ reaped[t] = "exit1" /\ attempts[t] = 1
        /\ started[t].retries > 0 /\ api[t] = "probe"

\* C5: when every attempt faulted, the error returned is the one of the last attempt made.
C5_LastFaultReturned ==
    \A t \in Threads : pc[t] = "done" /\ is_err(result[t]) =>
        /\ result[t].at = attempts[t]
        /\ api[t] = "probe_result" => outcome[t] = result[t]

C5_Witness ==
    \E t \in Threads :
        /\ pc[t] = "done" /\ is_err(result[t]) /\ attempts[t] = 1 + DefaultRetries
        /\ api[t] = "probe_result"

\* C6: probe returns b exactly when probe_result returns Ok(b) and panics exactly when
\* probe_result returns Err; a fault never becomes false.
C6_ProbeBoundary ==
    \A t \in Threads : pc[t] = "done" /\ api[t] = "probe" =>
        /\ \A b \in BOOLEAN : (outcome[t] = [tag |-> "Bool", val |-> b]) <=> (result[t] = Ok(b))
        /\ (outcome[t] = [tag |-> "Panic"]) <=> is_err(result[t])

C6_Witness ==
    \E t \in Threads :
        /\ pc[t] = "done" /\ api[t] = "probe"
        /\ outcome[t] = [tag |-> "Panic"] /\ faults[t] = attempts[t]

\* C7: the gate is held exactly from just before the spawn until just after the
\* wait-for-exit of the attempt's child: a thread holds it exactly in spawn, write and wait,
\* and every child not yet waited for belongs to the attempt that holds the gate.
C7_GateCoversSpawnToWait ==
    /\ \A t \in Threads : (RUSTC_MUTEX = t) <=> (pc[t] \in Critical)
    /\ \A pid \in Live : RUSTC_MUTEX = pid[1] /\ child[pid[1]] = pid

\* C8 as stated: the arguments are --emit, <emit_kind>=<null-device>, -, the extra
\* arguments in order, and last, only when debug is set, --verbose; RUST_BACKTRACE is set
\* exactly when debug is.
C8_VerbosityLast ==
    \A t \in Threads : cmd[t] # NoCmd =>
        /\ cmd[t].args =
              <<"--emit", started[t].emit_type \o "=" \o NULL_DEVICE, "-">>
                  \o started[t].rustc_args
                  \o (IF started[t].debug THEN <<"--verbose">> ELSE <<>>)
        /\ (<<"RUST_BACKTRACE", "full">> \in cmd[t].env) <=> started[t].debug

\* C8 amended: --verbose, only when debug is set, comes first; then --emit,
\* <emit_kind>=<null-device>, -, and the extra arguments in the order they were added;
\* RUST_BACKTRACE is set exactly when debug is.
C8_VerbosityFirst ==
    \A t \in Threads : cmd[t] # NoCmd =>
        /\ cmd[t].args =
              (IF started[t].debug THEN <<"--verbose">> ELSE <<>>)
                  \o <<"--emit", started[t].emit_type \o "=" \o NULL_DEVICE, "-">>
                  \o started[t].rustc_args
        /\ (<<"RUST_BACKTRACE", "full">> \in cmd[t].env) <=> started[t].debug
        /\ cmd[t].program = started[t].rustc

C8_Witness ==
    \E t \in Threads :
        /\ cmd[t] # NoCmd /\ started[t].debug
        /\ started[t].rustc_args = <<"-g", "-O">>

\* C9: no probing operation changes a Probe, and from its start to its return a call works
\* with the configuration it started with: the Probe it borrows stays as it was, the
\* Command built from it stays the same through all attempts, and the retry counter
\* counts down from the retry count the call started with.
LoopsDone(t) ==
    IF pc[t] = "loop" THEN attempts[t] - 1
    ELSE IF attempts[t] > 1 THEN attempts[t] - 2 ELSE 0

C9_SameConfig ==
    \A t \in Threads : InCall(t) =>
        /\ probes[self[t]] = started[t]
        /\ cmd[t] # NoCmd =>
              /\ cmd[t].program = started[t].rustc
              /\ started[t].rustc_args = SubSeq(cmd[t].args, Len(cmd[t].args)
                    - Len(started[t].rustc_args) + 1, Len(cmd[t].args))
              /\ started[t].emit_type \o "=" \o NULL_DEVICE
                    = cmd[t].args[IF started[t].debug THEN 3 ELSE 2]
              /\ started[t].debug = (cmd[t].env # {})
              /\ n[t] + LoopsDone(t) = started[t].retries

C9_ProbingStep ==
    (\E t \in Threads : pc'[t] # pc[t]) =>
        /\ probes' = probes
        /\ \A t \in Threads : (cmd[t] # NoCmd /\ pc'[t] # "done") => cmd'[t] = cmd[t]

C9_ConfigImmutable == [](C9_SameConfig) /\ [][C9_ProbingStep]_vars

C9_Witness ==
    \E t \in Threads :
        /\ pc[t] = "lock" /\ attempts[t] = 2
        /\ \E p \in Probes : p # self[t] /\ calledOn = p /\ probes[p] # ProbeNew
        /\ started[t] # ProbeNew

\* C10: after any sequence of builder calls every Probe holds what the calls asked for
\* (rustc_args every argument of arg and args in call order, each other field the value of
\* the last call of its builder or its default), and each call returned the Probe it was
\* called on.
C10_Builders ==
    /\ \A p \in Probes : probes[p] = asked[p]
    /\ chained = calledOn

C10_Witness ==
    \E p \in Probes :
        /\ probes[p].rustc_args = <<"-O", "-g">>
        /\ chained = p


\* The probe kind an entry point serves.
KindOf(a) ==
    CASE a = "probe_type" -> "type"
      [] a = "probe_expression" -> "expression"
      [] a = "probe_typed_expression" -> "typed expression"
      [] OTHER -> "program"

\* The entry points of kind k that hand a fault back to the caller as a value.
ResultForms(k) ==
    {a \in EntryPoints :
        KindOf(a) = k /\ \A r \in {Err("spawn", 1)} : Boundary(Callee(a), r) = r}

\* C11 (as stated): whenever a call's fault survived all its retries, the probe kind of
\* the call has an entry point that returns that fault as an error value.
C11_EveryKindHasResultForm ==
    \A t \in Threads : pc[t] = "done" /\ is_err(result[t]) =>
        ResultForms(KindOf(entry[t])) # {}

\* C11 (amended): only the raw-program kind has a result-returning form, probe_result; a
\* surviving fault comes back as its error value from probe_result and as a panic from
\* every other entry point, and the three wrapping kinds have no form that returns it.
C11_OnlyProgramHasResultForm ==
    \A t \in Threads : pc[t] = "done" /\ is_err(result[t]) =>
        /\ entry[t] = "probe_result" => outcome[t] = result[t]
        /\ entry[t] # "probe_result" => outcome[t] = [tag |-> "Panic"]
        /\ ResultForms(KindOf(entry[t])) # {} <=> KindOf(entry[t]) = "program"
        /\ ResultForms("program") = {"probe_result"}

C11_Witness ==
    \E t \in Threads :
        /\ pc[t] = "done" /\ entry[t] = "probe_type"
        /\ is_err(result[t]) /\ outcome[t] = [tag |-> "Panic"]


\* C12: with a compiler that is a fixed function of program and arguments, all the calls
\* that probe the same program with the same arguments and return a boolean return the
\* same one, the one the compiler's status for them gives, whichever thread made them,
\* however often and in whatever interleaving; and a call that has returned leaves
\* neither the gate held nor a handle, a counter or a result behind for the next call.
C12_Idempotent ==
    /\ \A x \in verdicts, y \in verdicts :
          x[1] = y[1] /\ x[2] = y[2] => x[3] = y[3]
    /\ \A x \in verdicts : x[3] = (toolchain[<<x[1], x[2]>>] = "exit0")
    /\ \A t \in Threads : pc[t] \in {"format", "build"} =>
          /\ RUSTC_MUTEX # t /\ child[t] = NoPid
          /\ attempts[t] = 0 /\ faults[t] = 0 /\ result[t] = NoResult

C12_Witness ==
    \E t \in Threads, u \in Threads :
        /\ t # u /\ calls[t] = MaxRepeatCalls /\ calls[u] >= 1
        /\ pc[t] = "done" /\ pc[u] = "done" /\ injected = 0
        /\ Cardinality(verdicts) = 1


\* C13: once a call has built its command, and so before and while any child of it is
\* spawned, the diagnostic stream holds "probing: " and the program's text when debug is
\* true and nothing when debug is false; the child's stdout and stderr go to the null
\* device in both modes; and what the call returns is given by what its attempts did (the
\* status reaped, or the last fault), whatever debug is.
C13_DebugEcho ==
    \A t \in Threads :
        /\ cmd[t] # NoCmd =>
              /\ started[t].debug => echo[t] = "probing: " \o code[t]
              /\ ~started[t].debug => echo[t] = ""
              /\ cmd[t].stdout = "null" /\ cmd[t].stderr = "null"
        /\ child[t] # NoPid => cmd[t] # NoCmd
        /\ pc[t] = "done" =>
              /\ reaped[t] # "none" => result[t] = Ok(reaped[t] = "exit0")
              /\ reaped[t] = "none" => is_err(result[t]) /\ result[t].at = attempts[t]
              /\ outcome[t] = Boundary(api[t], result[t])

C13_Witness ==
    \E t \in Threads :
        /\ started[t].debug /\ pc[t] = "write" /\ child[t] # NoPid
        /\ echo[t] = "probing: " \o code[t] /\ code[t] # ""


\* C14: a call through a wrapping entry point is a call of probe on the formatted text:
\* probe_type(T) probes a program with a function taking one Box<T> plus an empty main,
\* probe_expression(E) a main holding `let _ = E;`, probe_typed_expression(E, T) a main
\* holding `let _: T = E;`; formatting always completes, and until it has, the call holds
\* no gate, has no child and has made no attempt; afterwards the text is what the child
\* is given, and the call ends as probe ends: a boolean, or a panic after 1 + retries
\* faulted attempts.
C14_WrappersAreProbe ==
    \A t \in Threads :
        /\ pc[t] \notin {"idle", "format", "done"} =>
              /\ entry[t] = "probe_type" =>
                    /\ code[t] = "fn probe_fun(_: Box<" \o frag[t][1] \o ">) {} fn main() {} "
                    /\ frag[t] = <<"u32">> =>
                          code[t] = "fn probe_fun(_: Box<u32>) {} fn main() {} "
              /\ entry[t] = "probe_expression" =>
                    /\ code[t] = "fn main() { let _ = " \o frag[t][1] \o "; }"
                    /\ frag[t] = <<"Vec::new()">> =>
                          code[t] = "fn main() { let _ = Vec::new(); }"
              /\ entry[t] = "probe_typed_expression" =>
                    /\ code[t] = "fn main() { let _: " \o frag[t][2] \o " = "
                                     \o frag[t][1] \o "; }"
                    /\ frag[t] = <<"Vec::new()", "u32">> =>
                          code[t] = "fn main() { let _: u32 = Vec::new(); }"
              /\ entry[t] \in {"probe", "probe_result"} => code[t] = frag[t][1]
              /\ api[t] = (IF entry[t] = "probe_result" THEN "probe_result" ELSE "probe")
        /\ pc[t] = "format" => ENABLED Format(t)
        /\ pc[t] \in {"format", "build"} =>
              /\ RUSTC_MUTEX # t /\ child[t] = NoPid /\ attempts[t] = 0
              /\ \A pid \in spawned : ~(pid[1] = t /\ pid[2] = calls[t])
        /\ pc[t] \in {"wait", "waiting"} => written[t] = code[t]
        /\ pc[t] = "done" /\ entry[t] # "probe_result" =>
              /\ outcome[t] = Expect(result[t])
              /\ outcome[t] = [tag |-> "Panic"] =>
                    faults[t] = attempts[t] /\ attempts[t] = 1 + started[t].retries

C14_Witness ==
    \E t \in Threads :
        /\ entry[t] = "probe_typed_expression" /\ pc[t] = "waiting"
        /\ written[t] = "fn main() { let _: u32 = Vec::new(); }"
        /\ attempts[t] = 2


\* The two terminal states of a call: a boolean, or the fault that survived the retries
\* (as a value or as a panic).
Terminal(t) == pc[t] = "done" /\ outcome[t].tag \in {"Ok", "Bool", "Err", "Panic"}

C16_Stages ==
    \A t \in Threads :
        /\ pc[t] \in Critical => RUSTC_MUTEX = t
        /\ pc[t] \in {"write", "wait", "waiting"} =>
              child[t] = <<t, calls[t], attempts[t]>> /\ child[t] \in spawned
        /\ pc[t] = "write" => stdin[t] = "open" /\ written[t] = ""
        /\ pc[t] = "wait" => stdin[t] = "open" /\ written[t] = code[t]
        /\ pc[t] = "waiting" => stdin[t] = "closed" /\ written[t] = code[t]
        /\ RUSTC_MUTEX # t => child[t] = NoPid /\ stdin[t] = "none" /\ written[t] = ""

\* What each step of an attempt comes after.
C16_Steps ==
    \A t \in Threads :
        /\ child'[t] # child[t] /\ child'[t] # NoPid =>
              /\ RUSTC_MUTEX = t /\ child[t] = NoPid
              /\ child'[t] \notin spawned /\ child'[t] \notin Live
        /\ written'[t] # written[t] /\ written'[t] # "" =>
              /\ RUSTC_MUTEX = t /\ child[t] # NoPid /\ stdin[t] = "open"
              /\ written'[t] = code[t]
        /\ stdin'[t] = "closed" /\ stdin[t] # "closed" =>
              RUSTC_MUTEX = t /\ written[t] = code[t] /\ code[t] # ""
        /\ reaped'[t] # reaped[t] /\ reaped'[t] # "none" =>
              /\ RUSTC_MUTEX = t /\ stdin[t] = "closed" /\ written[t] = code[t]
              /\ RUSTC_MUTEX' = 0
        /\ RUSTC_MUTEX = t /\ RUSTC_MUTEX' # t =>
              child'[t] = NoPid /\ stdin'[t] = "none"

\* C16: inside an attempt the gate is taken first; the child is spawned under the gate and
\* is a process no earlier attempt was given; the whole program text is written to the
\* open stdin of that child; stdin is closed only after the whole text was written; the
\* wait returns only for a child whose stdin is closed, and the gate is released in the
\* step the wait returns; a thread that does not hold the gate has no child to write to
\* or wait for.
C16_StepOrder == [](C16_Stages) /\ [][C16_Steps]_vars

C16_Witness ==
    \E t \in Threads :
        /\ pc[t] = "loop" /\ reaped[t] = "exit0" /\ attempts[t] = 2
        /\ RUSTC_MUTEX # t /\ Cardinality({pid \in spawned : pid[1] = t}) = 2


\* Thread t holds a spawned child that has not exited.
Hung(t) == pc[t] \in {"write", "wait", "waiting"} /\ StatusOf(child[t]) = "running"

\* C17: a thread whose spawned child has not exited stays in that attempt, holding the
\* gate: no step takes it out of the attempt, to a further attempt or to a return, and no
\* step gives another thread a child.
C17_HungChildBlocks ==
    [][\A t \in Threads : Hung(t) =>
          /\ pc'[t] \in {"write", "wait", "waiting"}
          /\ RUSTC_MUTEX' = t /\ attempts'[t] = attempts[t]
          /\ \A u \in Threads \ {t} : child'[u] = NoPid]_vars


\* The gate is held only inside an attempt, and never poisoned; a call panics or returns
\* an error only when all of its own attempts faulted; a thread at the gate waits only
\* for a thread that is inside an attempt.
C18_Isolated ==
    /\ ~poisoned
    /\ RUSTC_MUTEX # 0 => pc[RUSTC_MUTEX] \in Critical
    /\ \A t \in Threads :
          /\ pc[t] = "done" /\ outcome[t].tag \in {"Panic", "Err"} =>
                /\ RUSTC_MUTEX # t
                /\ faults[t] = attempts[t] /\ attempts[t] = 1 + started[t].retries
          /\ pc[t] = "done" /\ faults[t] < attempts[t] => outcome[t].tag \in {"Ok", "Bool"}
          /\ pc[t] = "lock" => ENABLED Lock(t) \/ pc[RUSTC_MUTEX] \in Critical

\* An attempt that faults, in spawn, write or wait, releases the gate in the same step.
C18_FaultReleases ==
    \A t \in Threads : faults'[t] > faults[t] =>
        /\ RUSTC_MUTEX = t /\ RUSTC_MUTEX' = 0
        /\ result'[t].kind \in {"spawn", "write", "wait"}

\* C18: the gate is released at the end of every attempt, a faulting one too, and is not
\* held when probe panics; the gate is never poisoned; and a thread's call panics, returns
\* an error or waits at the gate only on account of its own faults or of a thread that is
\* inside an attempt, never on account of another thread's fault or panic.
C18_FaultIsolation == [](C18_Isolated) /\ [][C18_FaultReleases]_vars

C18_Witness ==
    \E t \in Threads, u \in Threads :
        /\ pc[t] = "done" /\ outcome[t] = [tag |-> "Panic"]
        /\ pc[u] = "done" /\ faults[u] = 0 /\ outcome[u].tag \in {"Ok", "Bool"}
        /\ \E pid \in spawned : pid[1] = u
        /\ Cardinality({pid \in Live : pid[1] = t}) >= 1

====
